---- MODULE Spec2Model ----
(***************************************************************************)
(* A model of the dense matrix utility of src/main.rs: the Matrix struct   *)
(* (m, n, entries), its constructor, its index helpers, sub_matrix, add,   *)
(* mul, det and the Display rendering.                                     *)
(*                                                                         *)
(* A matrix is a record [m, n, entries]; entries is the row-major buffer,  *)
(* so the Rust position idx is entries[idx + 1] here.  Entries are         *)
(* integers: every value the model uses is an integer that f64 represents  *)
(* exactly, and so are all the sums and products formed from them.         *)
(*                                                                         *)
(* new, sub_matrix, add and fmt are one action each.  mul and det are run  *)
(* step by step (one step per loop iteration or call), so that what they   *)
(* read, index and call along the way is part of the state.                *)
(***************************************************************************)
EXTENDS Integers, Sequences, FiniteSets, TLC

\* ------------------------------------------------------------------ bounds

\* The largest row count and column count of an input matrix.
MaxDim == 4

\* Inputs of at most this many cells take every combination of Vals
\* (specification SpecDet); larger ones are the Gen patterns.
MaxCells == 9

\* The same for the specification of the two-operand operations (SpecPair).
MaxPairCells == 4

\* The Gen patterns are numbered 0..MaxSeed.
MaxSeed == 1

\* The entry values of the exhaustively valued inputs.
Vals == {-1, 0, 2}

\* m and n are u32.  The model's dimensions are at most 2^16 = HalfWord, the
\* least dimension whose square, 2^32, does not fit in a u32.
HalfWord == 65536

\* The longest buffer an action of the model allocates.
MaxAlloc == (MaxDim + 1) * (MaxDim + 1)

\* ------------------------------------------------------------------ values

Mat(m, n, entries) == [m |-> m, n |-> n, entries |-> entries]

Min(x, y) == IF x <= y THEN x ELSE y

zeros(len) == [k \in 1..len |-> 0]

\* Pattern number seed of length len: pattern 0 has pairwise distinct positive
\* entries (5, 12, 14, 18, ...); the others mix signs and zeros.  The square
\* matrices of side 2 and more they fill have nonzero determinants.
Gen(len, seed) ==
    [k \in 1..len |-> IF seed = 0 THEN 4 * k + ((k * k) % 7)
                      ELSE ((k * k * k + seed * k) % 7) - 3]

Shapes == (0..MaxDim) \X (0..MaxDim)

\* The buffers of the input matrices of len cells: every combination of Vals
\* when len is within the budget, the Gen patterns otherwise.  An input
\* matrix Mat(m, n, e) has e in Fill(m * n, budget), so Len(entries) = m * n.
Fill(len, budget) ==
    IF len <= budget THEN [1..len -> Vals] ELSE {Gen(len, s) : s \in 0..MaxSeed}

\* A budget under which every input is a Gen pattern.
Patterns == 0 - 1

\* ------------------------------------------------------------------ outcomes

NoMat == Mat(0, 0, <<>>)

OutNone == [kind |-> "none", mat |-> NoMat, val |-> 0, err |-> "", text |-> <<>>]

OutMatrix(M) == [OutNone EXCEPT !.kind = "matrix", !.mat = M]

OutScalar(v) == [OutNone EXCEPT !.kind = "scalar", !.val = v]

OutText(t) == [OutNone EXCEPT !.kind = "text", !.text = t]

\* panic!(..) of the three dimension checks is err = "DimensionMismatch"; the
\* panics of the language are "IndexOutOfBounds", "Overflow", "DivideByZero".
OutPanic(e) == [OutNone EXCEPT !.kind = "panic", !.err = e]

\* ------------------------------------------------------------------ Matrix

\* With overflow checks (a debug build) an overflowing u32 operation panics;
\* without them (a release build) it wraps.  new returns the outcomes the
\* builds can produce.
\* The u32 product m * n, for m, n <= HalfWord: it overflows only when
\* m = n = HalfWord, where the product is 2^32 and wraps to 0.
mul_overflows(m, n) == m >= HalfWord /\ n >= HalfWord

wrapping_mul(m, n) == IF mul_overflows(m, n) THEN 0 ELSE m * n

\* The u32 difference x - 1: 0 - 1 overflows and wraps to 2^32 - 1, which is
\* written -1 here (the same residue modulo 2^32).
wrapping_dec(x) == x - 1

new_build(m, n, checked) ==
    IF mul_overflows(m, n) /\ checked
    THEN OutPanic("Overflow")
    ELSE OutMatrix(Mat(m, n, zeros(wrapping_mul(m, n))))

new(m, n) == {new_build(m, n, checked) : checked \in BOOLEAN}

\* i * n + j does not overflow for i, j, n <= HalfWord, and no buffer of the
\* model is long enough for idx as u32 to truncate.
get_index(X, i, j) == i * X.n + j

\* A get_coords that divides by the row count.
get_coords_by_rows(X, idx) == <<idx \div X.m, idx % X.m>>

get_coords(X, idx) == <<idx \div X.n, idx % X.n>>

\* The positions get_row_vec / get_col_vec read, in loop order.
row_idx(X, i) == [k \in 1..X.n |-> get_index(X, i, k - 1)]

col_idx(X, j) == [k \in 1..X.m |-> get_index(X, k - 1, j)]

\* The loop iterations that run: an iteration runs when no earlier one has
\* indexed the buffer out of range (which panics).
ran(X, idxs) ==
    {k \in 1..Len(idxs) : \A k2 \in 1..(k - 1) : idxs[k2] < Len(X.entries)}

read_vec(X, idxs) ==
    IF \A k \in 1..Len(idxs) : idxs[k] < Len(X.entries)
    THEN [ok |-> TRUE, vec |-> [k \in 1..Len(idxs) |-> X.entries[idxs[k] + 1]]]
    ELSE [ok |-> FALSE, vec |-> <<>>]

get_row_vec(X, i) == read_vec(X, row_idx(X, i))

get_col_vec(X, j) == read_vec(X, col_idx(X, j))

\* The get_index calls and the buffer accesses of one get_row_vec / get_col_vec.
row_calls(X, i) ==
    {[m |-> X.m, n |-> X.n, i |-> i, j |-> k - 1] : k \in ran(X, row_idx(X, i))}

col_calls(X, j) ==
    {[m |-> X.m, n |-> X.n, i |-> k - 1, j |-> j] : k \in ran(X, col_idx(X, j))}

vec_accesses(X, idxs) ==
    {[len |-> Len(X.entries), idx |-> idxs[k]] : k \in ran(X, idxs)}

\* The number of entries the loop reads (the iterations that do not panic).
vec_reads(X, idxs) ==
    Cardinality({k \in ran(X, idxs) : idxs[k] < Len(X.entries)})

\* The filter of sub_matrix: the flat positions that survive, in order.
kept(X, i, j) ==
    SelectSeq([k \in 1..Len(X.entries) |-> k - 1],
              LAMBDA idx : ~(get_coords(X, idx)[1] = i \/ get_coords(X, idx)[2] = j))

sub_matrix_build(X, i, j, checked) ==
    IF (X.m = 0 \/ X.n = 0) /\ checked
    THEN OutPanic("Overflow")
    ELSE IF X.n = 0 /\ Len(X.entries) > 0
    THEN OutPanic("DivideByZero")
    ELSE OutMatrix(Mat(wrapping_dec(X.m), wrapping_dec(X.n),
                       [k \in 1..Len(kept(X, i, j)) |-> X.entries[kept(X, i, j)[k] + 1]]))

sub_matrix(X, i, j) == {sub_matrix_build(X, i, j, checked) : checked \in BOOLEAN}

\* The conditions of the three dimension checks (lines 100, 119, 147).
add_dims_differ(X, Y) == <<X.m, X.n>> # <<Y.m, Y.n>>

\* A mul that checks the conventional rule only (self.n == other.m).
mul_dims_differ_conventional(X, Y) == X.n # Y.m

mul_dims_differ(X, Y) == <<X.m, X.n>> # <<Y.n, Y.m>>

det_not_square(X) == X.m # X.n

\* An add whose closure subtracts.
add_subtracting(X, Y) ==
    IF add_dims_differ(X, Y)
    THEN OutPanic("DimensionMismatch")
    ELSE OutMatrix(Mat(X.m, X.n,
                       [k \in 1..Min(Len(X.entries), Len(Y.entries)) |->
                            X.entries[k] - Y.entries[k]]))

add(X, Y) ==
    IF add_dims_differ(X, Y)
    THEN OutPanic("DimensionMismatch")
    ELSE OutMatrix(Mat(X.m, X.n,
                       [k \in 1..Min(Len(X.entries), Len(Y.entries)) |->
                            X.entries[k] + Y.entries[k]]))

\* zip, map, fold of mul: the products of the pairs, summed left to right from 0.
RECURSIVE fold_products(_, _, _, _)
fold_products(l, r, k, sum) ==
    IF k > Min(Len(l), Len(r)) THEN sum
    ELSE fold_products(l, r, k + 1, sum + l[k] * r[k])

dot_prod(l, r) == fold_products(l, r, 1, 0)

\* A coef without the alternating sign.
coef_unsigned(col) == 1

\* coef of det: (-1f64).powf((0 + col) as f64).
coef(col) == IF col % 2 = 0 THEN 1 ELSE -1

\* The tokens Display writes: "{} " is an entry and a space, "{}\n" an entry
\* and a newline.
Entry(v) == [t |-> "entry", v |-> v]

Space == [t |-> "space", v |-> 0]

Newline == [t |-> "newline", v |-> 0]

\* A separator that breaks the line after every m-th entry.
separator_by_rows(X, i) == IF i % X.m = 0 THEN Newline ELSE Space

separator(X, i) == IF i % X.n = 0 THEN Newline ELSE Space

fmt(X) ==
    LET count == wrapping_mul(X.m, X.n)
    IN  IF count > Len(X.entries)
        THEN OutPanic("IndexOutOfBounds")
        ELSE OutText([k \in 1..(2 * count) |->
                 IF k % 2 = 1 THEN Entry(X.entries[(k + 1) \div 2])
                 ELSE separator(X, k \div 2)])

\* A match without the arm for 2: a 2x2 matrix goes to the arm `_`.
match_arm_without_two(m) == IF m <= 1 THEN m ELSE 3

\* The arm of `match self.m` taken: 0, 1, 2, or 3 for the arm `_`.
match_arm(m) == IF m <= 2 THEN m ELSE 3

\* The prologue of det on X (the dimension check and the match on m), with
\* the get_index calls, buffer accesses and entry reads it makes.  phase is
\* "panic", "ret" (a base case, val is the result) or "loop" (m >= 3).
det_base(X) ==
    LET none == [phase |-> "loop", err |-> "", val |-> 0, reads |-> 0,
                 calls |-> {}, accesses |-> {}]
        \* the arm for 1 reads self.entries[0]
        sole == <<0>>
        \* the arm for 2 reads a, b, c, d through get_index, in this order
        coords == <<<<0, 0>>, <<0, 1>>, <<1, 0>>, <<1, 1>>>>
        abcd == [k \in 1..4 |-> get_index(X, coords[k][1], coords[k][2])]
    IN  IF det_not_square(X)
        THEN [none EXCEPT !.phase = "panic", !.err = "DimensionMismatch"]
        ELSE CASE match_arm(X.m) = 0 -> [none EXCEPT !.phase = "ret", !.val = 0]
               [] match_arm(X.m) = 1 ->
                    [none EXCEPT
                        !.phase = IF read_vec(X, sole).ok THEN "ret" ELSE "panic",
                        !.err = IF read_vec(X, sole).ok THEN "" ELSE "IndexOutOfBounds",
                        !.val = IF read_vec(X, sole).ok THEN read_vec(X, sole).vec[1] ELSE 0,
                        !.reads = vec_reads(X, sole),
                        !.accesses = vec_accesses(X, sole)]
               [] match_arm(X.m) = 2 ->
                    [none EXCEPT
                        !.phase = IF read_vec(X, abcd).ok THEN "ret" ELSE "panic",
                        !.err = IF read_vec(X, abcd).ok THEN "" ELSE "IndexOutOfBounds",
                        !.val = IF read_vec(X, abcd).ok
                                THEN read_vec(X, abcd).vec[1] * read_vec(X, abcd).vec[4]
                                       - read_vec(X, abcd).vec[2] * read_vec(X, abcd).vec[3]
                                ELSE 0,
                        !.reads = vec_reads(X, abcd),
                        !.calls = {[m |-> X.m, n |-> X.n,
                                    i |-> coords[k][1], j |-> coords[k][2]] :
                                       k \in ran(X, abcd)},
                        !.accesses = vec_accesses(X, abcd)]
               [] OTHER -> none

\* A call of det in progress: its matrix, where it stands, and its locals.
Frame(X, b) ==
    [mat |-> X, phase |-> b.phase, col |-> 0, det |-> 0, entry |-> 0, val |-> b.val]

\* ------------------------------------------------------------------ state

VARIABLES
    self,       \* the receiver of the operation (the input matrix)
    other,      \* the argument of add / mul
    op,         \* the operation run: "none", "new", "sub_matrix", "add", "mul", "det", "fmt"
    argi, argj, \* the arguments of new (m, n) and of sub_matrix (i, j)
    pc,         \* "idle", "mul_row", "mul_cell", "det", "done"
    out,        \* the outcome of the operation
    res,        \* mul: the local res
    mi, mj,     \* mul: the loop variables i and j
    row_vec,    \* mul: the local row_vec
    stack,      \* det: the calls in progress, the innermost last
    reads,      \* the number of entries read so far
    built,      \* the number of matrices constructed so far
    calls,      \* the get_index calls made so far: [m, n, i, j]
    accesses,   \* the buffer positions indexed so far: [len, idx]
    subcalls,   \* det: the sub_matrix calls made so far: [m, n, i, j]
    detcalls    \* det: the recursive calls made so far: [cm, cn, m, n]

vars == <<self, other, op, argi, argj, pc, out, res, mi, mj, row_vec, stack,
          reads, built, calls, accesses, subcalls, detcalls>>

mulvars == <<res, mi, mj, row_vec>>

detvars == <<stack, subcalls, detcalls>>

InitWith(budget) ==
    /\ \E sh \in Shapes : \E e \in Fill(sh[1] * sh[2], budget) :
          self = Mat(sh[1], sh[2], e)
    /\ other = NoMat
    /\ op = "none"
    /\ argi = 0
    /\ argj = 0
    /\ pc = "idle"
    /\ out = OutNone
    /\ res = NoMat
    /\ mi = 0
    /\ mj = 0
    /\ row_vec = <<>>
    /\ stack = <<>>
    /\ reads = 0
    /\ built = 0
    /\ calls = {}
    /\ accesses = {}
    /\ subcalls = {}
    /\ detcalls = {}

Finish(o) ==
    /\ out' = o
    /\ pc' = "done"

\* ------------------------------------------------------------------ one-step operations

DoNew ==
    /\ pc = "idle"
    /\ \E m \in (0..MaxDim) \cup {HalfWord}, n \in (0..MaxDim) \cup {HalfWord} :
          /\ wrapping_mul(m, n) <= MaxAlloc
          /\ argi' = m
          /\ argj' = n
          /\ \E o \in new(m, n) :
                /\ Finish(o)
                /\ built' = IF o.kind = "matrix" THEN 1 ELSE 0
    /\ op' = "new"
    /\ UNCHANGED <<self, other, reads, calls, accesses>>
    /\ UNCHANGED mulvars
    /\ UNCHANGED detvars

DoSubMatrix ==
    /\ pc = "idle"
    /\ \E i \in 0..MaxDim, j \in 0..MaxDim :
          /\ argi' = i
          /\ argj' = j
          /\ \E o \in sub_matrix(self, i, j) :
                /\ Finish(o)
                /\ built' = IF o.kind = "matrix" THEN 1 ELSE 0
                /\ reads' = IF o.kind = "matrix" THEN Len(o.mat.entries) ELSE 0
    /\ op' = "sub_matrix"
    /\ UNCHANGED <<self, other, calls, accesses>>
    /\ UNCHANGED mulvars
    /\ UNCHANGED detvars

\* The second operand of add and mul: of a shape equal or transposed to
\* self's it is filled within the budget, of another shape it is a Gen pattern.
OtherFill(sh, budget) ==
    IF sh \in {<<self.m, self.n>>, <<self.n, self.m>>}
    THEN Fill(sh[1] * sh[2], budget)
    ELSE Fill(sh[1] * sh[2], Patterns)

DoAdd(budget) ==
    /\ pc = "idle"
    /\ \E sh \in Shapes : \E e \in OtherFill(sh, budget) :
        LET o == Mat(sh[1], sh[2], e)
        IN
          /\ other' = o
          /\ Finish(add(self, o))
          /\ built' = IF add(self, o).kind = "matrix" THEN 1 ELSE 0
          /\ reads' = IF add(self, o).kind = "matrix"
                      THEN 2 * Len(add(self, o).mat.entries) ELSE 0
    /\ op' = "add"
    /\ UNCHANGED <<self, argi, argj, calls, accesses>>
    /\ UNCHANGED mulvars
    /\ UNCHANGED detvars

DoFmt ==
    /\ pc = "idle"
    /\ Finish(fmt(self))
    /\ op' = "fmt"
    /\ reads' = Min(wrapping_mul(self.m, self.n), Len(self.entries))
    /\ accesses' = {[len |-> Len(self.entries), idx |-> k - 1] :
                       k \in 1..Min(wrapping_mul(self.m, self.n), Len(self.entries) + 1)}
    /\ UNCHANGED <<self, other, argi, argj, built, calls>>
    /\ UNCHANGED mulvars
    /\ UNCHANGED detvars

\* ------------------------------------------------------------------ mul

\* Lines 119-124: the dimension check, then res = Matrix::new(self.m, other.n).
MulStart(budget) ==
    /\ pc = "idle"
    /\ op' = "mul"
    /\ \E sh \in Shapes : \E e \in OtherFill(sh, budget) :
        LET o == Mat(sh[1], sh[2], e)
        IN
          /\ other' = o
          /\ IF mul_dims_differ(self, o)
             THEN /\ Finish(OutPanic("DimensionMismatch"))
                  /\ UNCHANGED <<res, built>>
             ELSE \E r \in new(self.m, o.n) :
                    IF r.kind = "panic"
                    THEN /\ Finish(r)
                         /\ UNCHANGED <<res, built>>
                    ELSE /\ res' = r.mat
                         /\ built' = 1
                         /\ pc' = "mul_row"
                         /\ out' = out
    /\ UNCHANGED <<self, argi, argj, mi, mj, row_vec, reads, calls, accesses>>
    /\ UNCHANGED detvars

\* Lines 126-128: the next i of the outer loop; row_vec = self.get_row_vec(i).
MulRow ==
    /\ pc = "mul_row"
    /\ mi < self.m
    /\ calls' = calls \cup row_calls(self, mi)
    /\ accesses' = accesses \cup vec_accesses(self, row_idx(self, mi))
    /\ reads' = reads + vec_reads(self, row_idx(self, mi))
    /\ IF get_row_vec(self, mi).ok
       THEN /\ row_vec' = get_row_vec(self, mi).vec
            /\ mj' = 0
            /\ pc' = "mul_cell"
            /\ out' = out
       ELSE /\ Finish(OutPanic("IndexOutOfBounds"))
            /\ UNCHANGED <<row_vec, mj>>
    /\ UNCHANGED <<self, other, op, argi, argj, res, mi, built>>
    /\ UNCHANGED detvars

\* Lines 129-139: the next j of the inner loop, which runs over 0..self.n.
MulCell ==
    /\ pc = "mul_cell"
    /\ mj < self.n
    /\ LET idx == get_index(res, mi, mj)
           col_vec == get_col_vec(other, mj)
       IN  /\ calls' = calls \cup {[m |-> res.m, n |-> res.n, i |-> mi, j |-> mj]}
                             \cup col_calls(other, mj)
           /\ reads' = reads + vec_reads(other, col_idx(other, mj))
           /\ IF ~col_vec.ok
              THEN /\ Finish(OutPanic("IndexOutOfBounds"))
                   /\ accesses' = accesses \cup vec_accesses(other, col_idx(other, mj))
                   /\ UNCHANGED <<res, mj>>
              ELSE /\ accesses' = accesses \cup vec_accesses(other, col_idx(other, mj))
                                           \cup {[len |-> Len(res.entries), idx |-> idx]}
                   /\ IF idx >= Len(res.entries)
                      THEN /\ Finish(OutPanic("IndexOutOfBounds"))
                           /\ UNCHANGED <<res, mj>>
                      ELSE /\ res' = [res EXCEPT !.entries[idx + 1] =
                                                      dot_prod(row_vec, col_vec.vec)]
                           /\ mj' = mj + 1
                           /\ UNCHANGED <<pc, out>>
    /\ UNCHANGED <<self, other, op, argi, argj, mi, row_vec, built>>
    /\ UNCHANGED detvars

\* The inner loop is over: the outer loop goes on with the next i.
MulRowEnd ==
    /\ pc = "mul_cell"
    /\ mj >= self.n
    /\ mi' = mi + 1
    /\ pc' = "mul_row"
    /\ UNCHANGED <<self, other, op, argi, argj, out, res, mj, row_vec, reads, built,
                   calls, accesses>>
    /\ UNCHANGED detvars

\* Line 142: the outer loop is over and mul returns res.
MulEnd ==
    /\ pc = "mul_row"
    /\ mi >= self.m
    /\ Finish(OutMatrix(res))
    /\ UNCHANGED <<self, other, op, argi, argj, res, mi, mj, row_vec, reads, built,
                   calls, accesses>>
    /\ UNCHANGED detvars

\* ------------------------------------------------------------------ det

top == stack[Len(stack)]

\* Lines 145-177 on self: the call of det from outside.
DetStart ==
    /\ pc = "idle"
    /\ op' = "det"
    /\ LET b == det_base(self)
       IN  /\ reads' = reads + b.reads
           /\ calls' = calls \cup b.calls
           /\ accesses' = accesses \cup b.accesses
           /\ IF b.phase = "panic"
              THEN /\ Finish(OutPanic(b.err))
                   /\ stack' = stack
              ELSE /\ stack' = <<Frame(self, b)>>
                   /\ pc' = "det"
                   /\ out' = out
    /\ UNCHANGED <<self, other, argi, argj, built, subcalls, detcalls>>
    /\ UNCHANGED mulvars

\* Lines 179-186: the next col of the loop, up to the call subm.det(), whose
\* prologue (lines 145-177 on subm) runs in the same step.
DetLoop ==
    /\ pc = "det"
    /\ top.phase = "loop"
    /\ top.col < top.mat.n
    /\ LET X == top.mat
           idx == get_index(X, 0, top.col)
           here == {[m |-> X.m, n |-> X.n, i |-> 0, j |-> top.col]}
       IN  /\ IF idx >= Len(X.entries)
              THEN /\ Finish(OutPanic("IndexOutOfBounds"))
                   /\ calls' = calls \cup here
                   /\ accesses' = accesses \cup {[len |-> Len(X.entries), idx |-> idx]}
                   /\ UNCHANGED <<stack, reads, built, subcalls, detcalls>>
              ELSE \E s \in sub_matrix(X, 0, top.col) :
                     /\ subcalls' = subcalls \cup
                                      {[m |-> X.m, n |-> X.n, i |-> 0, j |-> top.col]}
                     /\ IF s.kind = "panic"
                        THEN /\ Finish(s)
                             /\ calls' = calls \cup here
                             /\ accesses' = accesses \cup {[len |-> Len(X.entries), idx |-> idx]}
                             /\ reads' = reads + 1
                             /\ UNCHANGED <<stack, built, detcalls>>
                        ELSE LET b == det_base(s.mat)
                             IN  /\ built' = built + 1
                                 /\ calls' = calls \cup here \cup b.calls
                                 /\ detcalls' = detcalls \cup
                                       {[cm |-> X.m, cn |-> X.n, m |-> s.mat.m, n |-> s.mat.n]}
                                 /\ reads' = reads + 1 + Len(s.mat.entries) + b.reads
                                 /\ accesses' = accesses
                                       \cup {[len |-> Len(X.entries), idx |-> idx]}
                                       \cup b.accesses
                                 /\ IF b.phase = "panic"
                                    THEN /\ Finish(OutPanic(b.err))
                                         /\ stack' = stack
                                    ELSE /\ stack' = Append(
                                               [stack EXCEPT ![Len(stack)].entry = X.entries[idx + 1]],
                                               Frame(s.mat, b))
                                         /\ UNCHANGED <<pc, out>>
    /\ UNCHANGED <<self, other, op, argi, argj>>
    /\ UNCHANGED mulvars

\* Line 191: the loop is over and the call returns its local det.
DetLoopEnd ==
    /\ pc = "det"
    /\ top.phase = "loop"
    /\ top.col >= top.mat.n
    /\ stack' = [stack EXCEPT ![Len(stack)].phase = "ret", ![Len(stack)].val = top.det]
    /\ UNCHANGED <<self, other, op, argi, argj, pc, out, reads, built, calls, accesses,
                   subcalls, detcalls>>
    /\ UNCHANGED mulvars

\* A call returns: to the outside, or to line 186 of its caller, which goes
\* on with val = coef * entry * subm.det(); det += val and the next col.
DetReturn ==
    /\ pc = "det"
    /\ top.phase = "ret"
    /\ IF Len(stack) = 1
       THEN /\ Finish(OutScalar(top.val))
            /\ stack' = <<>>
       ELSE LET caller == stack[Len(stack) - 1]
                val == coef(caller.col) * caller.entry * top.val
            IN  /\ stack' = [SubSeq(stack, 1, Len(stack) - 1) EXCEPT
                                ![Len(stack) - 1].det = caller.det + val,
                                ![Len(stack) - 1].col = caller.col + 1]
                /\ UNCHANGED <<pc, out>>
    /\ UNCHANGED <<self, other, op, argi, argj, reads, built, calls, accesses,
                   subcalls, detcalls>>
    /\ UNCHANGED mulvars

\* ------------------------------------------------------------------ specifications

\* Every operation, on the Gen patterns of every shape.
Init == InitWith(Patterns)

Next ==
    \/ DoNew
    \/ DoSubMatrix
    \/ DoAdd(Patterns)
    \/ DoFmt
    \/ MulStart(Patterns)
    \/ MulRow
    \/ MulCell
    \/ MulRowEnd
    \/ MulEnd
    \/ DetStart
    \/ DetLoop
    \/ DetLoopEnd
    \/ DetReturn

Spec == Init /\ [][Next]_vars

\* det alone, on every matrix over Vals of at most MaxCells cells.
InitDet == InitWith(MaxCells)

NextDet ==
    \/ DetStart
    \/ DetLoop
    \/ DetLoopEnd
    \/ DetReturn

SpecDet == InitDet /\ [][NextDet]_vars

\* add and mul, on every pair of matrices over Vals of at most MaxPairCells
\* cells each whose shapes are equal or transposed, and on the Gen patterns.
InitPair == InitWith(MaxPairCells)

NextPair ==
    \/ DoAdd(MaxPairCells)
    \/ MulStart(MaxPairCells)
    \/ MulRow
    \/ MulCell
    \/ MulRowEnd
    \/ MulEnd

SpecPair == InitPair /\ [][NextPair]_vars

\* The one-operand, one-step operations, on the same matrices.
NextOne ==
    \/ DoNew
    \/ DoSubMatrix
    \/ DoFmt

SpecOne == InitPair /\ [][NextOne]_vars

\* The program is sequential and nothing suspends it: a started operation
\* keeps taking its steps.
FairSpec == Spec /\ WF_vars(Next)

\* ------------------------------------------------------------------ claims

\* Entry (i, j) of X, rows and columns counted from 0.
At(X, i, j) == X.entries[i * X.n + j + 1]

SameShape == self.m = other.m /\ self.n = other.n

MulRelation == self.m = other.n /\ self.n = other.m

\* The dot product of row i of X and column j of Y: the products
\* X[i,k] * Y[k,j], k = 0, 1, ..., summed from 0 in that order.
RECURSIVE RowTimesColumn(_, _, _, _, _)
RowTimesColumn(X, Y, i, j, count) ==
    IF count = 0 THEN 0
    ELSE RowTimesColumn(X, Y, i, j, count - 1) + At(X, i, count - 1) * At(Y, count - 1, j)

\* C1: for self and other with self.m = other.n and self.n = other.m, mul
\* returns a self.m x other.n matrix whose entry (i, j) is the dot product of
\* row i of self and column j of other.
C1_MulIsMatrixProduct ==
    (op = "mul" /\ pc = "done" /\ MulRelation) =>
        /\ out.kind = "matrix"
        /\ out.mat.m = self.m
        /\ out.mat.n = other.n
        /\ Len(out.mat.entries) = self.m * other.n
        /\ \A i \in 0..(self.m - 1), j \in 0..(other.n - 1) :
              At(out.mat, i, j) = RowTimesColumn(self, other, i, j, self.n)

\* C3: for self and other of equal shape, add returns a matrix of that shape
\* whose entry at every flat position is the sum of the operands' entries
\* there; add(other, self) has the same entries.
C3_AddIsEntrywiseSum ==
    (op = "add" /\ pc = "done" /\ SameShape) =>
        /\ out.kind = "matrix"
        /\ out.mat.m = self.m
        /\ out.mat.n = self.n
        /\ Len(out.mat.entries) = self.m * self.n
        /\ \A k \in 1..(self.m * self.n) :
              out.mat.entries[k] = self.entries[k] + other.entries[k]
        /\ add(other, self).kind = "matrix"
        /\ Len(add(other, self).mat.entries) = self.m * self.n
        /\ \A k \in 1..(self.m * self.n) :
              add(other, self).mat.entries[k] = out.mat.entries[k]

C3_Witness ==
    /\ op = "add" /\ pc = "done" /\ SameShape
    /\ self.m = 2 /\ self.n = 2
    /\ self.entries = <<2, -1, 0, 2>>
    /\ other.entries = <<-1, -1, 2, 0>>
    /\ out.kind = "matrix"
    /\ out.mat.entries = <<1, -2, 2, 2>>

\* The operation ended in the DimensionMismatch failure and did nothing else:
\* it read no entry, indexed nothing and built no matrix.
FailedOnDimensions ==
    /\ pc = "done"
    /\ out = OutPanic("DimensionMismatch")
    /\ reads = 0
    /\ built = 0
    /\ calls = {}
    /\ accesses = {}
    /\ res = NoMat
    /\ stack = <<>>

\* C4: add on operands of different shapes, mul on operands outside the
\* relation self.m = other.n and self.n = other.m, and det on a non-square
\* matrix end in the DimensionMismatch failure before any entry is read or
\* any matrix is built.
C4_DimensionErrorsAllOrNothing ==
    /\ (op = "add" /\ ~SameShape) => FailedOnDimensions
    /\ (op = "mul" /\ ~MulRelation) => FailedOnDimensions
    /\ (op = "det" /\ self.m # self.n) => FailedOnDimensions

C4_Witness ==
    /\ op = "mul"
    /\ self.m = 2 /\ self.n = 3
    /\ other.m = 3 /\ other.n = 4
    /\ FailedOnDimensions

\* C9: while mul runs on operands in the relation, and det on a square
\* matrix, every get_index(i, j) on a matrix has i < m and j < n, and every
\* buffer access is below the buffer's length.
C9_NoOutOfRangeAccess ==
    ((op = "mul" /\ MulRelation) \/ (op = "det" /\ self.m = self.n)) =>
        /\ \A c \in calls : c.i < c.m /\ c.j < c.n
        /\ \A a \in accesses : a.idx < a.len

\* The reference determinant: the Leibniz sum over the permutations p of the
\* columns of sign(p) * X[0,p(0)] * X[1,p(1)] * ...
ColumnPermutations(n) ==
    {p \in [0..(n - 1) -> 0..(n - 1)] : \A i, j \in 0..(n - 1) : i # j => p[i] # p[j]}

Sign(p, n) ==
    IF Cardinality({ij \in (0..(n - 1)) \X (0..(n - 1)) :
                       ij[1] < ij[2] /\ p[ij[1]] > p[ij[2]]}) % 2 = 0
    THEN 1 ELSE -1

RECURSIVE PermutedProduct(_, _, _)
PermutedProduct(X, p, rows) ==
    IF rows = 0 THEN 1
    ELSE PermutedProduct(X, p, rows - 1) * At(X, rows - 1, p[rows - 1])

RECURSIVE SignedSum(_, _)
SignedSum(X, perms) ==
    IF perms = {} THEN 0
    ELSE LET p == CHOOSE q \in perms : TRUE
         IN  Sign(p, X.m) * PermutedProduct(X, p, X.m) + SignedSum(X, perms \ {p})

LeibnizDet(X) == SignedSum(X, ColumnPermutations(X.m))

\* C2: on a square matrix of side m >= 1, det returns the determinant given
\* by the Leibniz sum over permutations.
C2_DetEqualsLeibniz ==
    (op = "det" /\ pc = "done" /\ self.m = self.n /\ self.m >= 1) =>
        out = OutScalar(LeibnizDet(self))

C2_Witness ==
    /\ op = "det" /\ pc = "done"
    /\ self = Mat(3, 3, <<2, -1, 0, -1, 2, -1, 0, -1, 2>>)
    /\ out = OutScalar(4)
    /\ built = 3

\* What holds of det's calls while det runs on a square matrix: the k-th call
\* in progress is on a square matrix of side self.m - (k - 1); only a call on
\* a 2x2 matrix returns from within the recursion without calling further,
\* and it is the call at depth self.m - 2 below the first; sub_matrix is
\* called on square matrices of side >= 3 with row 0 and a column in range.
DetCallsShrink ==
    /\ \A k \in 1..Len(stack) :
          /\ stack[k].mat.m = self.m - (k - 1)
          /\ stack[k].mat.n = self.m - (k - 1)
          /\ Len(stack[k].mat.entries) = stack[k].mat.m * stack[k].mat.n
          /\ (k > 1 /\ stack[k].mat.m <= 2) =>
                (stack[k].mat.m = 2 /\ k - 1 = self.m - 2)
    /\ \A c \in detcalls : c.cm = c.cn /\ c.m = c.n /\ c.m = c.cm - 1
    /\ \A c \in subcalls : c.m = c.n /\ c.m >= 3 /\ c.i = 0 /\ c.j \in 0..(c.n - 1)
    /\ out.kind # "panic"
    /\ (self.m = 0) =>
          /\ reads = 0 /\ calls = {} /\ accesses = {} /\ detcalls = {}
          /\ pc = "done" => out = OutScalar(0)

\* C10: det terminates on every square matrix; for m = 0 it returns 0 without
\* reading an entry; every recursive call is on a square matrix one smaller
\* than its caller's; sub_matrix is only called on a square matrix of side
\* >= 3 with row 0 and a column in 0..n-1; the recursion ends at the 2x2 base
\* case, m - 2 levels down.
C10_DetTerminates ==
    /\ []((op = "det" /\ self.m = self.n) => DetCallsShrink)
    /\ ((op = "det" /\ self.m = self.n) ~> (pc = "done" /\ out.kind = "scalar"))

C10_Witness ==
    /\ op = "det" /\ pc = "det"
    /\ self.m = 4 /\ self.n = 4
    /\ Len(stack) = 3
    /\ top.mat.m = 2
    /\ top.phase = "ret"
    /\ subcalls = {[m |-> 4, n |-> 4, i |-> 0, j |-> 0], [m |-> 3, n |-> 3, i |-> 0, j |-> 0]}

\* 1 when position r is at or after the deleted position d, else 0.
Skip(r, d) == IF r >= d THEN 1 ELSE 0

\* C5: for self with m >= 1 and n >= 1 and 0 <= i < m, 0 <= j < n,
\* sub_matrix(i, j) returns an (m-1) x (n-1) matrix whose entry (r, c) is
\* self's entry (r + (1 if r >= i), c + (1 if c >= j)).
C5_SubMatrixDeletesRowAndColumn ==
    (op = "sub_matrix" /\ pc = "done" /\ self.m >= 1 /\ self.n >= 1
        /\ argi < self.m /\ argj < self.n) =>
        /\ out.kind = "matrix"
        /\ out.mat.m = self.m - 1
        /\ out.mat.n = self.n - 1
        /\ Len(out.mat.entries) = (self.m - 1) * (self.n - 1)
        /\ \A r \in 0..(self.m - 2), c \in 0..(self.n - 2) :
              At(out.mat, r, c) = At(self, r + Skip(r, argi), c + Skip(c, argj))

C5_Witness ==
    /\ op = "sub_matrix" /\ pc = "done"
    /\ self = Mat(3, 2, Gen(6, 0))
    /\ argi = 1 /\ argj = 0
    /\ out = OutMatrix(Mat(2, 1, <<Gen(6, 0)[2], Gen(6, 0)[6]>>))

\* len = m * n, stated without forming the product (which for
\* m = n = HalfWord is 2^32).
IsProduct(len, m, n) ==
    IF m = 0 \/ n = 0 THEN len = 0 ELSE len % m = 0 /\ len \div m = n

\* C6: every matrix that new, sub_matrix, add or mul returns, for whatever
\* arguments they accept without failing, has Len(entries) = m * n.  Stated
\* here for the results whose dimensions are below HalfWord (a wrapped
\* dimension, written -1, is not).
C6_LengthInvariant ==
    (op \in {"new", "sub_matrix", "add", "mul"} /\ pc = "done" /\ out.kind = "matrix"
        /\ out.mat.m \in 0..(HalfWord - 1) /\ out.mat.n \in 0..(HalfWord - 1)) =>
        IsProduct(Len(out.mat.entries), out.mat.m, out.mat.n)

\* The lines the claim describes: for each row the entries in column order,
\* a space between two of them, a newline after the last.
RowLine(X, r) ==
    [k \in 1..(2 * X.n) |->
        IF k % 2 = 1 THEN Entry(At(X, r, (k - 1) \div 2))
        ELSE IF k = 2 * X.n THEN Newline ELSE Space]

RECURSIVE Lines(_, _)
Lines(X, rows) ==
    IF rows = 0 THEN <<>>
    ELSE Lines(X, rows - 1) \o (IF X.n = 0 THEN <<Newline>> ELSE RowLine(X, rows - 1))

\* C7 as stated: rendering an m x n matrix, m or n = 0 included, emits
\* exactly m lines, line r being row r's entries separated by spaces and
\* ended by one newline.
C7_RenderEmitsMLines ==
    (op = "fmt" /\ pc = "done") => out = OutText(Lines(self, self.m))

\* C7 as amended: the same for n >= 1 (m = 0 included); for n = 0 the output
\* is empty whatever m is.
C7_RenderEmitsRows ==
    (op = "fmt" /\ pc = "done") =>
        /\ self.n >= 1 => out = OutText(Lines(self, self.m))
        /\ self.n = 0 => out = OutText(<<>>)

C7_Witness ==
    /\ op = "fmt" /\ pc = "done"
    /\ self = Mat(2, 2, <<2, -1, 0, 2>>)
    /\ out = OutText(<<Entry(2), Space, Entry(-1), Newline,
                       Entry(0), Space, Entry(2), Newline>>)

\* C8: for all m, n that fit in u32, new(m, n) returns a matrix with those
\* m and n whose buffer has exactly m * n entries (the product itself, not the
\* product modulo 2^32), all 0.
C8_NewAllocatesProduct ==
    (op = "new" /\ pc = "done") =>
        /\ out.kind = "matrix"
        /\ out.mat.m = argi
        /\ out.mat.n = argj
        /\ IsProduct(Len(out.mat.entries), argi, argj)
        /\ \A k \in 1..Len(out.mat.entries) : out.mat.entries[k] = 0

====
